---- MODULE Spec2Model ----
(***************************************************************************)
(* Model of thai-wbk: the dictionary trie and the two greedy segmenters    *)
(* (segments::trie, shortest match with diacritic merging, and trie::trie, *)
(* longest match over byte offsets).                                       *)
(*                                                                         *)
(* A character is its Unicode scalar value.  A string is a sequence of     *)
(* characters.  A trie node is identified by the path of characters that   *)
(* leads to it from the root (the root is the empty path), which is what   *)
(* the nested HashMap<char, TrieNode> of the source amounts to.            *)
(* Option<T> is a sequence of length at most one: None is <<>>.            *)
(***************************************************************************)
EXTENDS Integers, Sequences, FiniteSets, TLC

\* ---------------------------------------------------------------- bounds
MaxWordLen == 2
MaxInserts == 2
MaxTextLen == 3

\* 'a' (a base character, one byte in UTF-8) and MAI CHATTAWA U+0E4B (a
\* combining mark, three bytes in UTF-8)
Alphabet == {97, 3659}

RECURSIVE SeqsUpTo(_, _)
SeqsUpTo(S, n) ==
    IF n = 0 THEN {<<>>}
    ELSE LET shorter == SeqsUpTo(S, n - 1)
         IN  shorter \cup {Append(s, c) : s \in shorter, c \in S}

Words == SeqsUpTo(Alphabet, MaxWordLen)
Texts == SeqsUpTo(Alphabet, MaxTextLen)

\* ------------------------------------------------- the strings of the tests
W_sawasdee     == <<3626, 3623, 3633, 3626, 3604, 3637>>
W_krub         == <<3588, 3619, 3633, 3610>>
W_khun         == <<3588, 3640, 3603>>
W_pai          == <<3652, 3611>>
W_teenai       == <<3607, 3637, 3656, 3652, 3627, 3609>>
W_sawasdeekrub == W_sawasdee \o W_krub

ThaiWords == <<W_sawasdee, W_krub, W_khun, W_pai, W_teenai, W_sawasdeekrub>>

TextBasic   == W_sawasdee \o W_krub \o W_khun \o W_pai \o W_teenai
TextPartial == W_sawasdee \o W_krub \o W_khun \o W_pai \o <<3652, 3627, 3609>>
TextNoMatch == <<97, 98, 99, 100, 101, 102, 103>>
TextMixed   == W_sawasdee \o W_krub \o <<49, 50, 51>> \o W_khun \o W_pai \o W_teenai

TestTexts == {TextBasic, TextPartial, TextNoMatch, TextMixed}

\* ---------------------------------------------------------------- helpers
None == <<>>
Some(v) == <<v>>

Range(s) == {s[k] : k \in 1..Len(s)}

IsPrefix(p, s) == Len(p) <= Len(s) /\ SubSeq(s, 1, Len(p)) = p

RECURSIVE Concat(_)
Concat(toks) ==
    IF toks = <<>> THEN <<>> ELSE Head(toks) \o Concat(Tail(toks))

\* ------------------------------------------------------------------ Trie
TrieNew == [nodes |-> {<<>>}, eow |-> {}]

\* insert that flips the flag instead of setting it
insert_toggle(t, word) ==
    [nodes |-> t.nodes \cup {SubSeq(word, 1, k) : k \in 1..Len(word)},
     eow   |-> IF word \in t.eow THEN t.eow \ {word} ELSE t.eow \cup {word}]

insert(t, word) ==
    [nodes |-> t.nodes \cup {SubSeq(word, 1, k) : k \in 1..Len(word)},
     eow   |-> t.eow \cup {word}]

RECURSIVE InsertAll(_, _)
InsertAll(t, ws) ==
    IF ws = <<>> THEN t ELSE InsertAll(insert(t, Head(ws)), Tail(ws))

create_trie_with_thai_words == InsertAll(TrieNew, ThaiWords)

\* the walk without the is_end_of_word test: every visited node is recorded
RECURSIVE Walk_every_node(_, _, _, _)
Walk_every_node(t, text, k, all_matches) ==
    IF k > Len(text) THEN all_matches
    ELSE LET current_match == SubSeq(text, 1, k)
         IN  IF current_match \in t.nodes
             THEN Walk_every_node(t, text, k + 1,
                                  Append(all_matches, current_match))
             ELSE all_matches

RECURSIVE Walk(_, _, _, _)
Walk(t, text, k, all_matches) ==
    IF k > Len(text) THEN all_matches
    ELSE LET current_match == SubSeq(text, 1, k)
         IN  IF current_match \in t.nodes
             THEN Walk(t, text, k + 1,
                       IF current_match \in t.eow
                       THEN Append(all_matches, current_match)
                       ELSE all_matches)
             ELSE all_matches

search_longest_prefix(t, text) ==
    LET all_matches == Walk(t, text, 1, <<>>)
    IN  IF all_matches = <<>> THEN None ELSE Some(all_matches)

\* ------------------------------------- segments::trie::segment_thai_text
\* chars[index..] collected back into a string (index is 0-based)
Remaining(chars, index) == SubSeq(chars, index + 1, Len(chars))

\* the last (longest) match instead of the first
matching_word_last(all_matches) == all_matches[Len(all_matches)]

\* &matches[0]
matching_word(all_matches) == all_matches[1]

\* the mark set without its last member
IsDiacritic_short(next_char) ==
    \/ next_char = 3655
    \/ next_char = 3656
    \/ next_char = 3657
    \/ next_char = 3658

IsDiacritic(next_char) ==
    \/ next_char = 3655   \* U+0E47
    \/ next_char = 3656   \* U+0E48
    \/ next_char = 3657   \* U+0E49
    \/ next_char = 3658   \* U+0E4A
    \/ next_char = 3659   \* U+0E4B

\* the bounds check of Vec indexing: chars[i] panics unless i < chars.len()
IndexOK(chars, i) == i >= 0 /\ i < Len(chars)

\* the look-ahead guard off by one
HasNext_off_by_one(chars, index) == index + 1 <= Len(chars)

\* if index + 1 < chars.len()
HasNext(chars, index) == index + 1 < Len(chars)

\* the fallback branch indexes chars[index] and, behind HasNext, chars[index + 1]
FallbackPanics(chars, index) ==
    \/ ~IndexOK(chars, index)
    \/ HasNext(chars, index) /\ ~IndexOK(chars, index + 1)

Merges(chars, index) ==
    HasNext(chars, index) /\ IsDiacritic(chars[index + 2])

\* the mark is skipped but never pushed
FallbackToken_no_push(chars, index) == <<chars[index + 1]>>

FallbackToken(chars, index) ==
    IF Merges(chars, index)
    THEN <<chars[index + 1], chars[index + 2]>>
    ELSE <<chars[index + 1]>>

\* the mark's extra step taken unconditionally
FallbackAdvance_always_two(chars, index) == 2

FallbackAdvance(chars, index) ==
    IF Merges(chars, index) THEN 2 ELSE 1

\* ----------------------------------------- trie::trie (byte-offset cursor)
\* char::len_utf8
Utf8Len(c) ==
    IF c < 128 THEN 1 ELSE IF c < 2048 THEN 2 ELSE IF c < 65536 THEN 3 ELSE 4

\* byte offset of the end of the first k characters of s
RECURSIVE ByteOffset(_, _)
ByteOffset(s, k) ==
    IF k = 0 THEN 0 ELSE ByteOffset(s, k - 1) + Utf8Len(s[k])

\* str::len
ByteLen(s) == ByteOffset(s, Len(s))

IsCharBoundary(s, b) == \E k \in 0..Len(s) : ByteOffset(s, k) = b

CharsBefore(s, b) == CHOOSE k \in 0..Len(s) : ByteOffset(s, k) = b

\* &text[from..to] panics unless both ends are character boundaries
SlicePanics(s, from, to) ==
    ~(from <= to /\ IsCharBoundary(s, from) /\ IsCharBoundary(s, to))

Slice(s, from, to) == SubSeq(s, CharsBefore(s, from) + 1, CharsBefore(s, to))

RECURSIVE WalkLongest(_, _, _, _)
WalkLongest(t, s, k, longest) ==
    IF k > Len(s) THEN longest
    ELSE LET current_match == SubSeq(s, 1, k)
         IN  IF current_match \in t.nodes
             THEN WalkLongest(t, s, k + 1,
                              IF current_match \in t.eow
                              THEN Some(current_match)
                              ELSE longest)
             ELSE longest

search_longest_prefix2(t, s) == WalkLongest(t, s, 1, None)

\* ------------------------------------------------------------------ state
\* trie            the Trie under construction / in use
\* lines           the words passed to insert so far, in order
\* pc              "build", "idle", "loop", "done" or "panic"
\* call            which segment_thai_text is running: "segments" or "trie"
\* text, index, result, remaining_text, matches, longest_match
\*                 the argument and the locals of the running call
VARIABLES trie, lines, pc, call, text, index, result,
          remaining_text, matches, longest_match

vars == <<trie, lines, pc, call, text, index, result,
          remaining_text, matches, longest_match>>

segvars == <<call, text, index, result, remaining_text, matches, longest_match>>

Init ==
    /\ trie = TrieNew
    /\ lines = <<>>
    /\ pc = "build"
    /\ call = "none"
    /\ text = <<>>
    /\ index = 0
    /\ result = <<>>
    /\ remaining_text = <<>>
    /\ matches = None
    /\ longest_match = None

\* one trie.insert(line) of the loading loop
Insert(word) ==
    /\ pc = "build"
    /\ Len(lines) < MaxInserts
    /\ trie' = insert(trie, word)
    /\ lines' = Append(lines, word)
    /\ UNCHANGED <<pc, segvars>>

\* Ok(trie)
LoadDone ==
    /\ pc = "build"
    /\ pc' = "idle"
    /\ UNCHANGED <<trie, lines, segvars>>

\* the fixture of the tests
CreateTrieWithThaiWords ==
    /\ pc = "build"
    /\ lines = <<>>
    /\ trie' = create_trie_with_thai_words
    /\ lines' = ThaiWords
    /\ pc' = "idle"
    /\ UNCHANGED segvars

\* the call of segment_thai_text on the loaded trie (one per run, as in main)
Start(fn, t) ==
    /\ pc = "idle"
    /\ call' = fn
    /\ text' = t
    /\ index' = 0
    /\ result' = <<>>
    /\ remaining_text' = <<>>
    /\ matches' = None
    /\ longest_match' = None
    /\ pc' = "loop"
    /\ UNCHANGED <<trie, lines>>

StartSegment(t) == Start("segments", t)

StartSegment2(t) == Start("trie", t)

\* one iteration of the while loop of segments::trie::segment_thai_text
SegStep ==
    /\ call = "segments"
    /\ pc = "loop"
    /\ index < Len(text)
    /\ LET rem == Remaining(text, index)
           m   == search_longest_prefix(trie, rem)
       IN  /\ remaining_text' = rem
           /\ matches' = m
           /\ IF m # None
              THEN LET w == matching_word(m[1])
                   IN  /\ result' = Append(result, w)
                       /\ index' = index + Len(w)
                       /\ pc' = pc
              ELSE IF FallbackPanics(text, index)
              THEN /\ pc' = "panic"
                   /\ UNCHANGED <<index, result>>
              ELSE /\ result' = Append(result, FallbackToken(text, index))
                   /\ index' = index + FallbackAdvance(text, index)
                   /\ pc' = pc
    /\ UNCHANGED <<trie, lines, call, text, longest_match>>

\* the loop condition fails: return result
SegReturn ==
    /\ call = "segments"
    /\ pc = "loop"
    /\ ~(index < Len(text))
    /\ pc' = "done"
    /\ UNCHANGED <<trie, lines, segvars>>

\* one iteration of the while loop of trie::trie::segment_thai_text
Seg2Step ==
    /\ call = "trie"
    /\ pc = "loop"
    /\ index < ByteLen(text)
    /\ IF SlicePanics(text, index, ByteLen(text))
       THEN /\ pc' = "panic"
            /\ UNCHANGED <<index, result, remaining_text, longest_match>>
       ELSE LET rem == Slice(text, index, ByteLen(text))
                m   == search_longest_prefix2(trie, rem)
            IN  /\ remaining_text' = rem
                /\ longest_match' = m
                /\ IF m # None
                   THEN /\ result' = Append(result, m[1])
                        /\ index' = index + Len(m[1])
                        /\ pc' = pc
                   ELSE IF SlicePanics(text, index, index + 1)
                   THEN /\ pc' = "panic"
                        /\ UNCHANGED <<index, result>>
                   ELSE /\ result' = Append(result, Slice(text, index, index + 1))
                        /\ index' = index + 1
                        /\ pc' = pc
    /\ UNCHANGED <<trie, lines, call, text, matches>>

Seg2Return ==
    /\ call = "trie"
    /\ pc = "loop"
    /\ ~(index < ByteLen(text))
    /\ pc' = "done"
    /\ UNCHANGED <<trie, lines, segvars>>

\* the texts a run segments: the bounded texts, and with the lexicon of the
\* tests also the texts of the tests
Inputs == IF lines = ThaiWords THEN Texts \cup TestTexts ELSE Texts

Next ==
    \/ \E w \in Words : Insert(w)
    \/ LoadDone
    \/ CreateTrieWithThaiWords
    \/ \E t \in Inputs : StartSegment(t)
    \/ SegStep
    \/ SegReturn
    \/ \E t \in Inputs : StartSegment2(t)
    \/ Seg2Step
    \/ Seg2Return

Spec == Init /\ [][Next]_vars

FairSpec == Spec /\ WF_vars(SegStep) /\ WF_vars(SegReturn)

\* ================================================================ claims
\* the inserted non-empty words that are prefixes of s
DictPrefixes(s) == {w \in Range(lines) : w # <<>> /\ IsPrefix(w, s)}

Shortest(S) == CHOOSE w \in S : \A v \in S : Len(w) <= Len(v)

\* the words of S (prefixes of one text, so of distinct lengths) by length
ByLength(S) ==
    [k \in 1..Cardinality(S) |->
        CHOOSE w \in S : Cardinality({v \in S : Len(v) < Len(w)}) = k - 1]

Marks == 3655..3659

InSegLoop == call = "segments" /\ pc = "loop" /\ index < Len(text)

\* C1: in segments::trie::segment_thai_text the tokens emitted so far
\* concatenate to exactly the first index characters of the text, and the
\* returned tokens concatenate to the whole text.
C1_RoundTrip ==
    call = "segments" =>
        /\ IsPrefix(Concat(result), text)
        /\ Len(Concat(result)) = index
        /\ pc = "done" => Concat(result) = text

C1_Witness ==
    /\ call = "segments"
    /\ pc = "done"
    /\ Concat(result) = text
    /\ \E i, j \in 1..Len(result) :
          /\ result[i] \in Range(lines)
          /\ result[j] \notin Range(lines)
          /\ Len(result[j]) = 2
          /\ result[j][2] \in Marks

\* C2: at a cursor position where some inserted non-empty word is a prefix
\* of the remaining text, the iteration appends exactly the shortest such
\* word and advances the cursor by its length; earlier tokens are kept.  With
\* the lexicon of the tests, TextBasic and TextMixed give the expected tokens.
C2_MatchSelection ==
    [][ /\ (InSegLoop /\ DictPrefixes(Remaining(text, index)) # {}) =>
              LET w == Shortest(DictPrefixes(Remaining(text, index)))
              IN  /\ result' = Append(result, w)
                  /\ index' = index + Len(w)
        /\ (call' = "segments" /\ pc' = "done" /\ lines' = ThaiWords
               /\ text' = TextBasic) =>
              result' = <<W_sawasdee, W_krub, W_khun, W_pai, W_teenai>>
        /\ (call' = "segments" /\ pc' = "done" /\ lines' = ThaiWords
               /\ text' = TextMixed) =>
              result' = <<W_sawasdee, W_krub, <<49>>, <<50>>, <<51>>,
                          W_khun, W_pai, W_teenai>>
      ]_vars

C2_Witness ==
    /\ call = "segments"
    /\ pc = "done"
    /\ lines = ThaiWords
    /\ text = TextBasic
    /\ result = <<W_sawasdee, W_krub, W_khun, W_pai, W_teenai>>

\* C3: at a cursor position with no dictionary match, the iteration appends
\* the two characters at index and index + 1 and advances by 2 when the next
\* character exists and is in U+0E47..U+0E4B, and otherwise appends the one
\* character at index and advances by 1.
C3_DiacriticMerge ==
    [][ (InSegLoop /\ DictPrefixes(Remaining(text, index)) = {}) =>
            IF index + 1 < Len(text) /\ text[index + 2] \in Marks
            THEN /\ result' = Append(result, <<text[index + 1], text[index + 2]>>)
                 /\ index' = index + 2
            ELSE /\ result' = Append(result, <<text[index + 1]>>)
                 /\ index' = index + 1
      ]_vars

C3_Witness ==
    /\ call = "segments"
    /\ pc = "loop"
    /\ remaining_text # <<>>
    /\ matches = None
    /\ result # <<>>
    /\ Len(result[Len(result)]) = 2
    /\ result[Len(result)][2] \in Marks
    /\ index < Len(text)

\* C4: no token that is not a dictionary word consists of a single
\* combining mark.
C4_NoLoneMark ==
    call = "segments" =>
        \A j \in 1..Len(result) :
            (Len(result[j]) = 1 /\ result[j][1] \in Marks)
                => result[j] \in Range(lines)

\* C5: inserting a word that was inserted before leaves the trie as it was,
\* nodes and flags, and search_longest_prefix answers every text as before.
C5_IdempotentInsert ==
    [][ (pc = "build" /\ Len(lines') = Len(lines) + 1
            /\ lines'[Len(lines')] \in Range(lines)) =>
            /\ trie' = trie
            /\ \A t \in Texts :
                  search_longest_prefix(trie', t) = search_longest_prefix(trie, t)
      ]_vars

C5_Witness ==
    /\ Len(lines) = 2
    /\ lines[1] = lines[2]
    /\ Len(lines[1]) = 2
    /\ trie = insert(TrieNew, lines[1])

\* C6: inserting the empty word leaves the trie unchanged, the root is never
\* marked end-of-word, and no zero-length match or token is produced.
C6_EmptyInsertNoOp ==
    /\ [][ (pc = "build" /\ Len(lines') = Len(lines) + 1
               /\ lines'[Len(lines')] = <<>>) => trie' = trie ]_vars
    /\ [](<<>> \notin trie.eow)
    /\ [](\A j \in 1..Len(result) : result[j] # <<>>)
    /\ [](matches # None => \A k \in 1..Len(matches[1]) : matches[1][k] # <<>>)

\* C7: when no inserted non-empty word is a prefix of the text at any
\* position and the text has no character in U+0E47..U+0E4B, the returned
\* tokens are the characters of the text, one each, in order.
C7_PureFallback ==
    (/\ call = "segments"
     /\ pc = "done"
     /\ \A k \in 1..Len(text) : text[k] \notin Marks
     /\ \A i \in 0..(Len(text) - 1) : DictPrefixes(Remaining(text, i)) = {})
        => result = [k \in 1..Len(text) |-> <<text[k]>>]

C7_Witness ==
    /\ call = "segments"
    /\ pc = "done"
    /\ lines = ThaiWords
    /\ text = TextNoMatch
    /\ result = <<<<97>>, <<98>>, <<99>>, <<100>>, <<101>>, <<102>>, <<103>>>>

\* C8: the answer of search_longest_prefix for the text it was last asked
\* about is the list of the inserted non-empty words that are prefixes of
\* that text, shortest first, and None exactly when there is no such word.
C8_PrefixQuery ==
    call = "segments" =>
        matches = IF DictPrefixes(remaining_text) = {}
                  THEN None
                  ELSE Some(ByLength(DictPrefixes(remaining_text)))

C8_Witness ==
    /\ call = "segments"
    /\ matches # None
    /\ Len(matches[1]) = 2
    /\ Len(matches[1][1]) < Len(matches[1][2])
    /\ matches[1][2] # remaining_text

\* C9: the cursor starts at 0, grows in every iteration, never passes the
\* length of the text, no index is out of bounds, and the loop ends with the
\* cursor at the length of the text.
C9_Progress ==
    /\ [][ /\ (pc # "loop" /\ pc' = "loop" /\ call' = "segments") => index' = 0
           /\ (call = "segments" /\ pc = "loop") =>
                 /\ pc' # "panic"
                 /\ index' <= Len(text)
                 /\ pc' = "loop" => index' > index
                 /\ pc' = "done" => index = Len(text)
         ]_vars
    /\ (call = "segments" /\ pc = "loop") ~> (call = "segments" /\ pc = "done")

C9_Witness ==
    /\ call = "segments"
    /\ pc = "done"
    /\ index = Len(text)
    /\ Len(result) >= 2
    /\ \E j \in 1..Len(result) : Len(result[j]) = 2

\* C10: in trie::trie::segment_thai_text the cursor is always on a character
\* boundary of the text, the call never panics, and the returned tokens
\* concatenate to the text.
C10_CharCursor ==
    call = "trie" =>
        /\ pc # "panic"
        /\ IsCharBoundary(text, index)
        /\ pc = "done" => Concat(result) = text
====
